---- MODULE Spec2Model ----
(***************************************************************************)
(* Model of shopkeep_combine_csv.py: main() reads the "Transactions        *)
(* Tenders" report into two dicts keyed by Transaction ID, then streams    *)
(* the "Transactions by Item" report, checks each item row against the     *)
(* dicts, merges the tenders payload into it and prints the selected       *)
(* columns joined with commas.                                             *)
(*                                                                         *)
(* A text (a Python str) is a sequence of atoms: an atom is either the     *)
(* one-character string "," or a non-empty comma-free string.  The empty   *)
(* text is << >>.  Column names are TLA+ strings; T(n) is a name as text.  *)
(* A line handed over by csv.reader is a sequence of texts (its fields),   *)
(* a header line is a sequence of names.                                   *)
(***************************************************************************)
EXTENDS Integers, Sequences, FiniteSets, TLC

\* Bounds of the model: how many data lines each report may hold.
MaxTendersRows == 2
MaxItemRows == 1

----------------------------------------------------------------------------
\* Texts

T(s) == <<s>>

Comma == ","

\* restval of csv.DictReader: the value of a column a short line does not
\* reach.  A reserved atom no text of the model contains.
None == <<"<None>">>

\* restkey given to csv.DictReader
RestKey == "Unexpected Fields"

SeqToSet(s) == {s[i] : i \in 1..Len(s)}

Reverse(s) == [i \in 1..Len(s) |-> s[Len(s) + 1 - i]]

\* ','.join(texts)
RECURSIVE Join(_)
Join(ts) ==
  IF ts = <<>> THEN <<>>
  ELSE IF Len(ts) = 1 THEN ts[1]
  ELSE ts[1] \o <<Comma>> \o Join(Tail(ts))

----------------------------------------------------------------------------
\* The fixed schemas

COMMON_FIELDS ==
  {"Transaction ID", "Time", "Register Name/Number", "Cashier Name",
   "Operation Type", "Net Total", "Tax", "Total Due"}

ITEM_FIELDS ==
  COMMON_FIELDS \cup
  {"Category", "Cost", "Customer ID", "Department", "Discounts", "Line Item",
   "Modifiers", "Price", "Quantity", "Store Code", "Subtotal",
   "Supplier Code", "Supplier", "UPC"}

TENDERS_FIELDS ==
  COMMON_FIELDS \cup
  {"Card Type", "Cardholder Name", "Customer Email", "Customer Name",
   "Discount", "Gross Amount", "Last 4 Digits", "New Liabilities",
   "Receipt Number", "Tender Type", "Tendered Amount", "Tips"}

\* list_from_comma_separated_string: the list is returned as given when all
\* its names are known, and ValueError is raised otherwise.
list_from_comma_separated_string(str_l) ==
  IF ~(SeqToSet(str_l) \subseteq (ITEM_FIELDS \cup TENDERS_FIELDS))
  THEN [raised |-> "ValueError", value |-> <<>>]
  ELSE [raised |-> "", value |-> str_l]

\* set_from_comma_separated_string
set_from_comma_separated_string(str_s) ==
  IF (str_s \ ITEM_FIELDS) \ TENDERS_FIELDS # {}
  THEN [raised |-> "ValueError", value |-> {}]
  ELSE [raised |-> "", value |-> str_s]

\* Mutant: the check only asks that every schema name is in the header
SchemaOK_m(fieldnames, FIELDS) == FIELDS \subseteq SeqToSet(fieldnames)

\* set(fieldnames) != FIELDS, negated: the header check of both reports
SchemaOK(fieldnames, FIELDS) == SeqToSet(fieldnames) = FIELDS

\* Keys of a tenders_dup entry in insertion order: the order the item loop
\* compares them in.
DupOrder == <<"Time", "Register Name/Number", "Cashier Name", "Operation Type">>

\* Keys of a tenders entry in insertion order.
PayloadOrder ==
  <<"Customer Name", "Customer Email", "Gross Amount", "Discount",
    "Tenders Net Total", "New Liabilities", "Tenders Tax",
    "Tenders Total Due", "Tips", "Tendered Amount", "Tender Type",
    "Card Type", "Last 4 Digits", "Cardholder Name", "Receipt Number">>

\* The tenders column a payload key is copied from.
PayloadSource(key) ==
  CASE key = "Tenders Net Total" -> "Net Total"
    [] key = "Tenders Tax" -> "Tax"
    [] key = "Tenders Total Due" -> "Total Due"
    [] OTHER -> key

----------------------------------------------------------------------------
\* csv.DictReader

\* The value DictReader stores under a column name: zip(fieldnames, line)
\* lets a later column of the same name overwrite an earlier one, and a
\* column the line does not reach gets restval.
Field(fieldnames, line, name) ==
  LET at == {i \in 1..Len(fieldnames) : fieldnames[i] = name}
      last == CHOOSE i \in at : \A j \in at : j <= i
  IN IF last <= Len(line) THEN line[last] ELSE None

\* The dict DictReader builds from one non-blank line, the surplus fields
\* of a long line as a list under restkey.
DictRow(fieldnames, line) ==
  LET d == [k \in SeqToSet(fieldnames) |-> Field(fieldnames, line, k)]
  IN IF Len(fieldnames) < Len(line)
     THEN (RestKey :> SubSeq(line, Len(fieldnames) + 1, Len(line))) @@ d
     ELSE d

\* Mutant: only the key column is looked at
HasNone_m(r) == r["Transaction ID"] = None

\* None in row.values()  (the list under restkey is never None)
HasNone(r) == \E k \in DOMAIN r \ {RestKey} : r[k] = None

\* 'Unexpected Fields' in row
HasExtra(r) == RestKey \in DOMAIN r

\* Mutant: an existing key keeps its value (setdefault)
DictPut_m(d, k, v) == d @@ (k :> v)

\* d[k] = v
DictPut(d, k, v) == (k :> v) @@ d

\* The tenders_dup entry built from a tenders row
DupRecord(r) == [k \in SeqToSet(DupOrder) |-> r[k]]

\* The tenders entry built from a tenders row
PayloadRecord(r) == [k \in SeqToSet(PayloadOrder) |-> r[PayloadSource(k)]]

\* row.update(payload)
Update(r, payload) ==
  [k \in DOMAIN r \cup DOMAIN payload |->
     IF k \in DOMAIN payload THEN payload[k] ELSE r[k]]

\* Mutant: Time is left out of the comparison
MismatchKey_m(dup, r) ==
  LET bad == {i \in 2..Len(DupOrder) : dup[DupOrder[i]] # r[DupOrder[i]]}
  IN IF bad = {} THEN ""
     ELSE DupOrder[CHOOSE i \in bad : \A j \in bad : i <= j]

\* The first key, in the dict's order, on which the item row disagrees with
\* the tenders_dup entry; "" when there is none.
MismatchKey(dup, r) ==
  LET bad == {i \in 1..Len(DupOrder) : dup[DupOrder[i]] # r[DupOrder[i]]}
  IN IF bad = {} THEN ""
     ELSE DupOrder[CHOOSE i \in bad : \A j \in bad : i <= j]

\* The output column list
Columns(item_names, tenders_names, incl, excl) ==
  IF incl # <<>> THEN incl
  ELSE LET all == item_names \o tenders_names
       IN IF excl # {} THEN SelectSeq(all, LAMBDA val : val \notin excl)
          ELSE all

\* [row[key] for key in fields]
Values(r, cols) == [i \in 1..Len(cols) |-> r[cols[i]]]

----------------------------------------------------------------------------
\* Messages written to stderr

MsgNone == [msg |-> "", arg |-> <<>>]
MsgNotTenders == [msg |-> "is not a Transactions Tenders report.", arg |-> <<>>]
MsgEmptyTender == [msg |-> "Empty value in tender from", arg |-> <<>>]
MsgExtraTender == [msg |-> "Extra value in tender from", arg |-> <<>>]
MsgNotItem == [msg |-> "is not a Transactions by Item report.", arg |-> <<>>]
MsgEmptyItem == [msg |-> "Empty value in item from", arg |-> <<>>]
MsgExtraItem == [msg |-> "Extra value in item from", arg |-> <<>>]
MsgNotIn(t_id) == [msg |-> "is not in", arg |-> t_id]
MsgMismatch(key) ==
  [msg |-> "Mismatch between item and tender for", arg |-> T(key)]
MsgIndexError == [msg |-> "Traceback: IndexError", arg |-> <<>>]

----------------------------------------------------------------------------
\* The inputs the model draws from

\* Column orders of the two exports
TendersColumns ==
  <<"Transaction ID", "Time", "Register Name/Number", "Cashier Name",
    "Operation Type", "Customer Name", "Customer Email", "Gross Amount",
    "Discount", "Net Total", "New Liabilities", "Tax", "Total Due", "Tips",
    "Tendered Amount", "Tender Type", "Card Type", "Last 4 Digits",
    "Cardholder Name", "Receipt Number">>

ItemColumns ==
  <<"Transaction ID", "Time", "Register Name/Number", "Cashier Name",
    "Operation Type", "Store Code", "Customer ID", "Line Item", "Modifiers",
    "Department", "Category", "Supplier", "Supplier Code", "UPC", "Cost",
    "Price", "Quantity", "Subtotal", "Discounts", "Net Total", "Tax",
    "Total Due">>

\* Headers: the export's own, a permutation, one with a column repeated,
\* one with a column added, one with a column removed, one with a column
\* renamed.
HeaderVariants(cols, repeated) ==
  {cols,
   Reverse(cols),
   Append(cols, repeated),
   Append(cols, "Notes"),
   SubSeq(cols, 1, Len(cols) - 1),
   [cols EXCEPT ![2] = "Date"]}

TendersHeaders == HeaderVariants(TendersColumns, "Tips")

ItemHeaders == HeaderVariants(ItemColumns, "UPC")

Ids == {T("1"), T("2")}
Times == {T("t1"), T("t2")}
Cashiers == {T("A"), <<"B", Comma, "C">>}

\* A tenders record; Customer Email is the empty text.
TendersRec(id, cashier) ==
  [n \in TENDERS_FIELDS |->
     CASE n = "Transaction ID" -> id
       [] n = "Time" -> T("t1")
       [] n = "Cashier Name" -> cashier
       [] n = "Customer Email" -> <<>>
       [] n = "Net Total" -> T("10")
       [] n = "Tax" -> T("1")
       [] n = "Total Due" -> T("11")
       [] n = "Tips" -> T("5")
       [] OTHER -> T("x")]

\* An item record; Modifiers is the empty text.
ItemRec(id, time, cashier) ==
  [n \in ITEM_FIELDS |->
     CASE n = "Transaction ID" -> id
       [] n = "Time" -> time
       [] n = "Cashier Name" -> cashier
       [] n = "Modifiers" -> <<>>
       [] n = "Net Total" -> T("7")
       [] n = "Tax" -> T("0")
       [] n = "Total Due" -> T("7")
       [] OTHER -> T("x")]

\* The line that carries a record under a header
LineOf(header, rec) ==
  [i \in 1..Len(header) |->
     IF header[i] \in DOMAIN rec THEN rec[header[i]] ELSE T("x")]

\* A line one field short, a line one field long, and the blank line
Misshapen(line) ==
  {SubSeq(line, 1, Len(line) - 1), Append(line, T("x")), <<>>}

TendersLines(header) ==
  {LineOf(header, TendersRec(id, c)) : id \in Ids, c \in Cashiers}
  \cup Misshapen(LineOf(header, TendersRec(T("2"), T("A"))))

ItemLines(header) ==
  {LineOf(header, ItemRec(id, t, c)) : id \in Ids, t \in Times, c \in Cashiers}
  \cup Misshapen(LineOf(header, ItemRec(T("2"), T("t1"), T("A"))))

IncludeCandidates ==
  {<<"Transaction ID", "Cashier Name", "Tips", "Net Total", "Tips">>,
   <<"Transaction ID", "Tenders Net Total">>}

ExcludeCandidates == {{"UPC", "Cost"}, {"UPC", "Tenders Tax"}}

----------------------------------------------------------------------------
VARIABLES
  pc,                 \* position in main(), "done" once it has ended
  include,            \* args.include, << >> when None
  exclude,            \* args.exclude, {} when None
  tenders_CSV,        \* what has been read of args.tenders_CSV
  item_CSV,           \* what has been read of args.item_CSV
  tenders_fieldnames,
  item_fieldnames,
  tenders_dup,
  tenders,
  fields,
  row,
  out,                \* the lines printed to args.output
  stderr,             \* the message printed to sys.stderr
  result              \* how main() ended

vars ==
  <<pc, include, exclude, tenders_CSV, item_CSV, tenders_fieldnames,
    item_fieldnames, tenders_dup, tenders, fields, row, out, stderr, result>>

Unread == [header |-> <<>>, rows |-> <<>>]

\* get_args: at most one of include and exclude is set, and each has passed
\* its type function.
Init ==
  /\ pc = "tenders_header"
  /\ \/ /\ include = <<>>
        /\ exclude = {}
     \/ /\ \E l \in IncludeCandidates :
             /\ list_from_comma_separated_string(l).raised = ""
             /\ include = list_from_comma_separated_string(l).value
        /\ exclude = {}
     \/ /\ include = <<>>
        /\ \E s \in ExcludeCandidates :
             /\ set_from_comma_separated_string(s).raised = ""
             /\ exclude = set_from_comma_separated_string(s).value
  /\ tenders_CSV = Unread
  /\ item_CSV = Unread
  /\ tenders_fieldnames = <<>>
  /\ item_fieldnames = <<>>
  /\ tenders_dup = <<>>
  /\ tenders = <<>>
  /\ fields = <<>>
  /\ row = <<>>
  /\ out = <<>>
  /\ stderr = MsgNone
  /\ result = "none"

\* print(message, file=sys.stderr); return 1
Fail(message) ==
  /\ stderr' = message
  /\ result' = "return 1"
  /\ pc' = "done"

\* Lines 134-139
TendersHeader ==
  /\ pc = "tenders_header"
  /\ \E h \in TendersHeaders :
       /\ tenders_CSV' = [header |-> h, rows |-> <<>>]
       /\ tenders_fieldnames' = h
       /\ IF ~SchemaOK(h, TENDERS_FIELDS)
          THEN Fail(MsgNotTenders)
          ELSE /\ pc' = "tenders_rows"
               /\ UNCHANGED <<stderr, result>>
  /\ UNCHANGED <<include, exclude, item_CSV, item_fieldnames, tenders_dup,
                 tenders, fields, row, out>>

\* DictReader skips a blank line
TendersBlank(line) ==
  /\ line = <<>>
  /\ UNCHANGED <<pc, tenders_dup, tenders, row, stderr, result>>

\* Lines 144-147
TendersEmpty(r) ==
  /\ HasNone(r)
  /\ Fail(MsgEmptyTender)
  /\ UNCHANGED <<tenders_dup, tenders>>

\* Lines 148-151
TendersExtra(r) ==
  /\ ~HasNone(r)
  /\ HasExtra(r)
  /\ Fail(MsgExtraTender)
  /\ UNCHANGED <<tenders_dup, tenders>>

\* Lines 153-176
TendersIndex(r) ==
  /\ ~HasNone(r)
  /\ ~HasExtra(r)
  /\ tenders_dup' = DictPut(tenders_dup, r["Transaction ID"], DupRecord(r))
  /\ tenders' = DictPut(tenders, r["Transaction ID"], PayloadRecord(r))
  /\ UNCHANGED <<pc, stderr, result>>

\* One iteration of the loop of line 143: the reader hands over the next
\* line as a dict, and the body runs on it
TendersRow ==
  /\ pc = "tenders_rows"
  /\ Len(tenders_CSV.rows) < MaxTendersRows
  /\ \E line \in TendersLines(tenders_fieldnames) :
       /\ tenders_CSV' = [tenders_CSV EXCEPT !.rows = Append(@, line)]
       /\ \/ TendersBlank(line)
          \/ /\ line # <<>>
             /\ row' = DictRow(tenders_fieldnames, line)
             /\ \/ TendersEmpty(row')
                \/ TendersExtra(row')
                \/ TendersIndex(row')
  /\ UNCHANGED <<include, exclude, item_CSV, tenders_fieldnames,
                 item_fieldnames, fields, out>>

\* The loop of line 143 ends with the file
TendersEnd ==
  /\ pc = "tenders_rows"
  /\ pc' = "item_header"
  /\ UNCHANGED <<include, exclude, tenders_CSV, item_CSV, tenders_fieldnames,
                 item_fieldnames, tenders_dup, tenders, fields, row, out,
                 stderr, result>>

\* Lines 179-195
ItemHeader ==
  /\ pc = "item_header"
  /\ \E h \in ItemHeaders :
       /\ item_CSV' = [header |-> h, rows |-> <<>>]
       /\ item_fieldnames' = h
       /\ IF DOMAIN tenders = {}
          THEN \* list(tenders)[0] of an empty dict
               /\ stderr' = MsgIndexError
               /\ result' = "raise IndexError"
               /\ pc' = "done"
               /\ UNCHANGED <<tenders_fieldnames, fields, out>>
          ELSE /\ tenders_fieldnames' = PayloadOrder
               /\ IF ~SchemaOK(h, ITEM_FIELDS)
                  THEN /\ Fail(MsgNotItem)
                       /\ UNCHANGED <<fields, out>>
                  ELSE /\ fields' = Columns(h, PayloadOrder, include, exclude)
                       /\ out' = Append(out,
                             Join([i \in 1..Len(fields') |-> T(fields'[i])]))
                       /\ pc' = "item_rows"
                       /\ UNCHANGED <<stderr, result>>
  /\ UNCHANGED <<include, exclude, tenders_CSV, tenders_dup, tenders, row>>

\* DictReader skips a blank line
ItemBlank(line) ==
  /\ line = <<>>
  /\ UNCHANGED <<pc, row, out, stderr, result>>

\* Lines 198-201
ItemEmpty(r) ==
  /\ HasNone(r)
  /\ row' = r
  /\ Fail(MsgEmptyItem)
  /\ UNCHANGED out

\* Lines 202-205
ItemExtra(r) ==
  /\ ~HasNone(r)
  /\ HasExtra(r)
  /\ row' = r
  /\ Fail(MsgExtraItem)
  /\ UNCHANGED out

\* Mutant: the message is printed and the loop goes on to the next row
ItemUnknown_m(r) ==
  /\ ~HasNone(r)
  /\ ~HasExtra(r)
  /\ r["Transaction ID"] \notin DOMAIN tenders
  /\ row' = r
  /\ stderr' = MsgNotIn(r["Transaction ID"])
  /\ UNCHANGED <<pc, result, out>>

\* Lines 207-210
ItemUnknown(r) ==
  /\ ~HasNone(r)
  /\ ~HasExtra(r)
  /\ r["Transaction ID"] \notin DOMAIN tenders
  /\ row' = r
  /\ Fail(MsgNotIn(r["Transaction ID"]))
  /\ UNCHANGED out

\* Lines 212-216
ItemMismatch(r) ==
  /\ ~HasNone(r)
  /\ ~HasExtra(r)
  /\ r["Transaction ID"] \in DOMAIN tenders
  /\ MismatchKey(tenders_dup[r["Transaction ID"]], r) # ""
  /\ row' = r
  /\ Fail(MsgMismatch(MismatchKey(tenders_dup[r["Transaction ID"]], r)))
  /\ UNCHANGED out

\* Lines 218-221
ItemMerge(r) ==
  /\ ~HasNone(r)
  /\ ~HasExtra(r)
  /\ r["Transaction ID"] \in DOMAIN tenders
  /\ MismatchKey(tenders_dup[r["Transaction ID"]], r) = ""
  /\ row' = Update(r, tenders[r["Transaction ID"]])
  /\ out' = Append(out, Join(Values(row', fields)))
  /\ UNCHANGED <<pc, stderr, result>>

\* One iteration of the loop of line 197: the reader hands over the next
\* line as a dict, and the body runs on it
ItemRow ==
  /\ pc = "item_rows"
  /\ Len(item_CSV.rows) < MaxItemRows
  /\ \E line \in ItemLines(item_fieldnames) :
       /\ item_CSV' = [item_CSV EXCEPT !.rows = Append(@, line)]
       /\ \/ ItemBlank(line)
          \/ /\ line # <<>>
             /\ LET r == DictRow(item_fieldnames, line)
                IN \/ ItemEmpty(r)
                   \/ ItemExtra(r)
                   \/ ItemUnknown(r)
                   \/ ItemMismatch(r)
                   \/ ItemMerge(r)
  /\ UNCHANGED <<include, exclude, tenders_CSV, tenders_fieldnames,
                 item_fieldnames, tenders_dup, tenders, fields>>

\* Line 223
ItemEnd ==
  /\ pc = "item_rows"
  /\ result' = "return 0"
  /\ pc' = "done"
  /\ UNCHANGED <<include, exclude, tenders_CSV, item_CSV, tenders_fieldnames,
                 item_fieldnames, tenders_dup, tenders, fields, row, out,
                 stderr>>

Next ==
  \/ TendersHeader
  \/ TendersRow
  \/ TendersEnd
  \/ ItemHeader
  \/ ItemRow
  \/ ItemEnd

Spec == Init /\ [][Next]_vars

----------------------------------------------------------------------------
\* Vocabulary of the properties

\* The non-blank lines among the data lines read so far
NonBlank(rows) == SelectSeq(rows, LAMBDA l : l # <<>>)

\* The values a reader of a comma-separated line finds in it
RECURSIVE Split(_)
Split(t) ==
  IF \A i \in 1..Len(t) : t[i] # Comma THEN <<t>>
  ELSE LET k == CHOOSE i \in 1..Len(t) :
                  t[i] = Comma /\ \A j \in 1..(i - 1) : t[j] # Comma
       IN <<SubSeq(t, 1, k - 1)>> \o Split(SubSeq(t, k + 1, Len(t)))

\* The failure kind a message stands for
Kind(m) ==
  CASE m.msg \in {MsgNotTenders.msg, MsgNotItem.msg} -> "SchemaMismatch"
    [] m.msg \in {MsgEmptyTender.msg, MsgEmptyItem.msg} -> "MalformedRow"
    [] m.msg \in {MsgExtraTender.msg, MsgExtraItem.msg} -> "UnexpectedColumns"
    [] m.msg = "is not in" -> "UnknownTransaction"
    [] m.msg = "Mismatch between item and tender for" -> "DuplicateFieldMismatch"
    [] m.msg = "" -> "None"
    [] OTHER -> "Uncaught"

\* A header with no missing and no extra column: every schema name once
ExactHeader(h, FIELDS) ==
  /\ SeqToSet(h) = FIELDS
  /\ Len(h) = Cardinality(FIELDS)

\* A header whose names are those of the schema, each at least once
SameNames(h, FIELDS) ==
  /\ \A n \in FIELDS : \E i \in 1..Len(h) : h[i] = n
  /\ \A i \in 1..Len(h) : h[i] \in FIELDS

\* The tenders header has been checked; the item header has been checked
TendersChecked == tenders_CSV.header # <<>>
ItemChecked == item_CSV.header # <<>> /\ stderr # MsgIndexError

\* A line with one field per column of the header
Full(header, line) == Len(line) = Len(header)

\* A non-blank line with fewer fields than the header
Short(header, line) == line # <<>> /\ Len(line) < Len(header)

\* A data row (a non-blank line) in which a declared column's value is
\* absent or is the empty text
AbsentOrEmpty(header, line) ==
  /\ line # <<>>
  /\ \/ Len(line) < Len(header)
     \/ \E j \in 1..Len(line) : j <= Len(header) /\ line[j] = <<>>

Last(s) == s[Len(s)]

\* The Transaction ID of a line of a report
TenderId(line) == Field(tenders_CSV.header, line, "Transaction ID")
ItemId(line) == Field(item_CSV.header, line, "Transaction ID")

\* The full tenders lines read so far, and the last of them with an id
FullTenders == SelectSeq(tenders_CSV.rows, LAMBDA l : Full(tenders_CSV.header, l))
LastTender(id) ==
  LET ft == FullTenders
      i == CHOOSE i \in 1..Len(ft) :
             /\ TenderId(ft[i]) = id
             /\ \A j \in (i + 1)..Len(ft) : TenderId(ft[j]) # id
  IN DictRow(tenders_CSV.header, ft[i])

\* The merge pass has taken a non-blank item line; the last one it took
ItemRowSeen == NonBlank(item_CSV.rows) # <<>>
LastItemLine == Last(NonBlank(item_CSV.rows))
LastItem == DictRow(item_CSV.header, LastItemLine)

\* The merge pass has failed on an item row
MergeFailed ==
  stderr.msg \in {MsgEmptyItem.msg, MsgExtraItem.msg, "is not in",
                  "Mismatch between item and tender for"}

\* The value the merged row of an item line holds under a column name
MergedValue(line, name) ==
  IF name \in ITEM_FIELDS THEN Field(item_CSV.header, line, name)
  ELSE LastTender(ItemId(line))[PayloadSource(name)]

----------------------------------------------------------------------------
\* C1: when the merge fails on an item row, nothing has been written to the
\* output when the run ends: neither the header line nor a merged row.
C1_NoPartialOutput == (pc = "done" /\ MergeFailed) => out = <<>>

\* C2: with both headers valid and every item row well-formed, known to the
\* index and agreeing on the four duplicate-check fields, the run succeeds,
\* the output has one data line per item row in order, and the merged row
\* keeps the item row's values and carries the 15 payload fields of the
\* indexed tenders row, Net Total, Tax and Total Due under their Tenders names.
C2_MergeCompleteness ==
  ( /\ pc = "done"
    /\ ExactHeader(tenders_CSV.header, TENDERS_FIELDS)
    /\ stderr.msg \notin {MsgEmptyTender.msg, MsgExtraTender.msg}
    /\ ExactHeader(item_CSV.header, ITEM_FIELDS)
    /\ \A i \in 1..Len(item_CSV.rows) :
         LET line == item_CSV.rows[i]
         IN /\ Full(item_CSV.header, line)
            /\ ItemId(line) \in DOMAIN tenders_dup
            /\ \A k \in {"Time", "Register Name/Number", "Cashier Name",
                         "Operation Type"} :
                 DictRow(item_CSV.header, line)[k] = tenders_dup[ItemId(line)][k] )
  => /\ result = "return 0"
     /\ Len(out) = 1 + Len(item_CSV.rows)
     /\ \A i \in 1..Len(item_CSV.rows) :
          out[i + 1] =
            Join([j \in 1..Len(fields) |-> MergedValue(item_CSV.rows[i], fields[j])])
     /\ item_CSV.rows # <<>> =>
          /\ \A n \in ITEM_FIELDS : row[n] = LastItem[n]
          /\ \A j \in 1..Len(PayloadOrder) : PayloadOrder[j] \in DOMAIN row
          /\ row["Tenders Net Total"] = LastTender(LastItem["Transaction ID"])["Net Total"]
          /\ row["Tenders Tax"] = LastTender(LastItem["Transaction ID"])["Tax"]
          /\ row["Tenders Total Due"] = LastTender(LastItem["Transaction ID"])["Total Due"]

\* C3: every run ends by reporting success or one failure kind of the
\* taxonomy; a tenders table with a valid header and no data rows succeeds
\* with only the header line when the item table is valid and empty, reports
\* SchemaMismatch when the item header is invalid, and UnknownTransaction
\* when there is an item row.
C3_OutcomeInTaxonomy ==
  pc = "done" =>
    /\ \/ result = "return 0" /\ stderr = MsgNone
       \/ Kind(stderr) \in {"SchemaMismatch", "MalformedRow", "UnexpectedColumns",
                            "UnknownTransaction", "DuplicateFieldMismatch"}
    /\ ( /\ ExactHeader(tenders_CSV.header, TENDERS_FIELDS)
         /\ tenders_CSV.rows = <<>>
         /\ item_CSV.header # <<>> ) =>
         IF ~ExactHeader(item_CSV.header, ITEM_FIELDS)
         THEN Kind(stderr) = "SchemaMismatch"
         ELSE IF item_CSV.rows = <<>>
         THEN result = "return 0" /\ Len(out) = 1
         ELSE Kind(stderr) = "UnknownTransaction"

ReadsShortTender ==
  /\ Len(tenders_CSV'.rows) > Len(tenders_CSV.rows)
  /\ Short(tenders_CSV.header, Last(tenders_CSV'.rows))
ReadsShortItem ==
  /\ Len(item_CSV'.rows) > Len(item_CSV.rows)
  /\ Short(item_CSV.header, Last(item_CSV'.rows))

C6_MismatchIff ==
  ( /\ ItemRowSeen
    /\ Full(item_CSV.header, LastItemLine)
    /\ LastItem["Transaction ID"] \in DOMAIN tenders_dup ) =>
    LET order == <<"Time", "Register Name/Number", "Cashier Name", "Operation Type">>
        indexed == tenders_dup[LastItem["Transaction ID"]]
        differs(k) == LastItem[k] # indexed[k]
    IN /\ Kind(stderr) = "DuplicateFieldMismatch" <=> \E i \in 1..4 : differs(order[i])
       /\ Kind(stderr) = "DuplicateFieldMismatch" =>
            /\ pc = "done" /\ result = "return 1"
            /\ \E i \in 1..4 :
                 /\ stderr.arg = T(order[i])
                 /\ differs(order[i])
                 /\ \A j \in 1..(i - 1) : ~differs(order[j])
       /\ Kind(stderr) # "DuplicateFieldMismatch" =>
            /\ Kind(stderr) = "None"
            /\ row["Net Total"] = LastItem["Net Total"]
            /\ Last(out) = Join(Values(row, fields))

\* An item row that agrees on Time and whose Net Total differs from the
\* tenders Net Total has been rejected for its Cashier Name.
C6_Witness ==
  /\ stderr = MsgMismatch("Cashier Name")
  /\ LastItem["Time"] = tenders_dup[LastItem["Transaction ID"]]["Time"]
  /\ LastItem["Net Total"] # tenders[LastItem["Transaction ID"]]["Tenders Net Total"]

C10_LastWriteWins ==
  /\ []( /\ DOMAIN tenders = {TenderId(l) : l \in SeqToSet(FullTenders)}
         /\ DOMAIN tenders_dup = DOMAIN tenders
         /\ \A id \in DOMAIN tenders :
              LET last == LastTender(id)
                  dup == tenders_dup[id]
                  payload == tenders[id]
              IN /\ DOMAIN dup = {"Time", "Register Name/Number",
                                  "Cashier Name", "Operation Type"}
                 /\ \A k \in DOMAIN dup : dup[k] = last[k]
                 /\ Cardinality(DOMAIN payload) = 15
                 /\ \A k \in DOMAIN payload \ {"Tenders Net Total", "Tenders Tax",
                                                 "Tenders Total Due"} :
                      payload[k] = last[k]
                 /\ payload["Tenders Net Total"] = last["Net Total"]
                 /\ payload["Tenders Tax"] = last["Tax"]
                 /\ payload["Tenders Total Due"] = last["Total Due"]
         /\ (stderr = MsgEmptyTender \/ stderr = MsgExtraTender) =>
              ~Full(tenders_CSV.header, Last(tenders_CSV.rows)) )
  /\ [][ (pc = "item_header" \/ pc = "item_rows") =>
            (tenders' = tenders /\ tenders_dup' = tenders_dup) ]_vars

\* Two tenders rows with the same id and different Cashier Names have been
\* indexed, and the merge pass has merged a row and ended.
C10_Witness ==
  /\ result = "return 0"
  /\ Len(out) >= 2
  /\ Len(FullTenders) = 2
  /\ TenderId(FullTenders[1]) = TenderId(FullTenders[2])
  /\ FullTenders[1] # FullTenders[2]

\* The merged row a data line of the output was rendered from
LineSource(i) == NonBlank(item_CSV.rows)[i - 1]

\* C8: with an include list, the output header is that list, and every data
\* line holds as many values as the list has names, the i-th the merged
\* row's value for the i-th name.
C8_ProjectionInclusion ==
  (include # <<>> /\ out # <<>>) =>
    /\ Split(out[1]) = [j \in 1..Len(include) |-> T(include[j])]
    /\ \A i \in 2..Len(out) :
         Split(out[i]) =
           [j \in 1..Len(include) |-> MergedValue(LineSource(i), include[j])]

\* The natural column list without the excluded names
NaturalColumns ==
  SelectSeq(item_CSV.header \o PayloadOrder, LAMBDA n : n \notin exclude)

\* C9: without an include list, the output header is the item header in
\* file order followed by the 15 payload columns, the excluded names
\* removed, and every data line holds one value per remaining column in
\* that order.
C9_ProjectionExclusion ==
  (include = <<>> /\ out # <<>>) =>
    /\ Split(out[1]) = [j \in 1..Len(NaturalColumns) |-> T(NaturalColumns[j])]
    /\ \A i \in 2..Len(out) :
         Split(out[i]) =
           [j \in 1..Len(NaturalColumns) |->
              MergedValue(LineSource(i), NaturalColumns[j])]

====
